---------------------------- MODULE Spec2Model ----------------------------
(***************************************************************************)
(* A model of charming_traceback.traceback.CharmingTraceback:              *)
(*   - __init__ (normalisation of the suppress list),                      *)
(*   - _check_should_suppress (frame suppression filter),                  *)
(*   - _render_stack (frame-window elision, suppression, source panels),   *)
(*   - extract (exception chain walk) and __rich_console__ (chain render), *)
(*   - installation.install (global hook slot).                            *)
(*                                                                         *)
(* Python strings are sequences of one-character strings, so that          *)
(* startswith / removesuffix / replace / "in" are computed on characters.  *)
(***************************************************************************)
EXTENDS Integers, Sequences, FiniteSets, TLC

VARIABLES
    pc,               \* position of the modelled call sequence
    cwd_entries,      \* names that exist in the current working directory
    suppress_arg,     \* the `suppress` iterable handed to __init__
    suppress,         \* self.suppress
    frame_filename,   \* argument of _check_should_suppress
    should_suppress,  \* its return value
    max_frames,       \* self.max_frames
    stack,            \* the Stack handed to _render_stack
    rendered,         \* what _render_stack yielded, and what it raised
    heap,             \* the exception objects the chain walk has looked at
    exc_value,        \* extract's loop variable (an exception id)
    is_cause,         \* extract's loop variable
    stacks,           \* extract's `stacks` list (Trace.stacks once returned)
    steps,            \* number of loop iterations of extract so far
    console,          \* what __rich_console__ yielded, and what it raised
    excepthook,       \* sys.excepthook
    original_hook,    \* sys.excepthook before any install()
    returned,         \* the values install() has returned, in call order
    installs          \* number of hooks install() has created

vars == <<pc, cwd_entries, suppress_arg, suppress, frame_filename,
          should_suppress, max_frames, stack, rendered, heap, exc_value,
          is_cause, stacks, steps, console, excepthook, original_hook,
          returned, installs>>

(***************************************************************************)
(* Bounds of the model.                                                    *)
(***************************************************************************)
MaxSuppress == 2      \* longest suppress list
MaxStackLen == 3      \* most frames in one node
MaxMaxFrames == 3     \* largest max_frames value tried
MaxExc == 2           \* most distinct exception objects in a chain
MaxSteps == 4         \* most iterations of extract's loop that are followed
MaxInstalls == 3      \* most install() calls
MaxTbLen == 3         \* most raw entries in one traceback

(***************************************************************************)
(* Python str operations, on sequences of characters.                      *)
(***************************************************************************)
StartsWith(s, p) ==
    /\ Len(p) <= Len(s)
    /\ SubSeq(s, 1, Len(p)) = p

EndsWith(s, p) ==
    /\ Len(p) <= Len(s)
    /\ SubSeq(s, Len(s) - Len(p) + 1, Len(s)) = p

\* str.removesuffix: drop the suffix once when present
RemoveSuffix(s, p) ==
    IF Len(p) > 0 /\ EndsWith(s, p) THEN SubSeq(s, 1, Len(s) - Len(p)) ELSE s

\* `sub in s`
Contains(s, sub) ==
    \E i \in 1..(Len(s) - Len(sub) + 1) : SubSeq(s, i, i + Len(sub) - 1) = sub

\* str.replace(".", "/")
ReplaceDots(s) == [i \in 1..Len(s) |-> IF s[i] = "." THEN "/" ELSE s[i]]

\* the last path component: Path.name
RECURSIVE LastSlash(_, _)
LastSlash(s, i) == IF i = 0 \/ s[i] = "/" THEN i ELSE LastSlash(s, i - 1)

PathName(s) == SubSeq(s, LastSlash(s, Len(s)) + 1, Len(s))

\* Path.parent of an absolute path
PathParent(s) ==
    LET i == LastSlash(s, Len(s)) IN IF i <= 1 THEN <<"/">> ELSE SubSeq(s, 1, i - 1)

(***************************************************************************)
(* The strings of the model: one package "j" (with a submodule "d"), one   *)
(* single-file module "k", user code under the working directory "/u".     *)
(***************************************************************************)
PySuffix == <<".", "p", "y">>
InitStem == <<"_", "_", "i", "n", "i", "t", "_", "_">>
InitPy == InitStem \o PySuffix

Cwd == <<"/", "u">>
LibJ == <<"/", "l", "/", "j">>                  \* package directory
FileJInit == LibJ \o <<"/">> \o InitPy          \* /l/j/__init__.py
FileJD == LibJ \o <<"/", "d">> \o PySuffix      \* /l/j/d.py
FileK == <<"/", "l", "/", "k">> \o PySuffix     \* /l/k.py
FileUser == Cwd \o <<"/", "t">> \o PySuffix     \* /u/t.py
FileGone == <<"/", "g", "/", "j">> \o PySuffix  \* /g/j.py, not on disk
FileFrozen == <<"<", "f", ">">>                 \* <f>, a frozen module
FileBad == Cwd \o <<"/", "b">> \o PySuffix      \* /u/b.py, rendering its code fails

FileRel == <<"r">> \o PySuffix                 \* r.py, a relative co_filename

NameJ == <<"j">>                                \* "j"
NameJD == <<"j", ".", "d">>                     \* "j.d"

\* what the disk holds besides the entries of the working directory
DiskFiles ==
    {LibJ, FileJInit, FileJD, FileK, FileUser, FileBad, Cwd, <<"/", "l">>}

\* names that may or may not exist in the working directory
CwdNames == {NameJ, NameJD}

\* Path(s) made absolute the way Path.resolve() does: a relative path is
\* taken from the working directory
Resolve(s) == IF Len(s) > 0 /\ s[1] = "/" THEN s ELSE Cwd \o <<"/">> \o s

\* Path.exists()
Exists(s, entries) ==
    \/ Resolve(s) \in DiskFiles
    \/ \E n \in entries : Resolve(s) = Cwd \o <<"/">> \o n


(***************************************************************************)
(* Suppress entities.  A module object is known by its __file__; a str or  *)
(* a Path by its text.                                                     *)
(***************************************************************************)
Module(file) == [kind |-> "module", s |-> file]
Str(s) == [kind |-> "str", s |-> s]
Path(s) == [kind |-> "Path", s |-> s]

\* the entities a caller passes as `suppress`; every module object is an
\* imported module whose __file__ is on disk
ArgEntities ==
    {Module(FileJInit), Module(FileK), Str(NameJ), Str(NameJD), Path(FileGone)}

\* the file names frames carry
FrameFiles == {FileJInit, FileJD, FileK, FileUser, FileGone, FileFrozen}

\* all sequences over S of length at most n
SeqsUpTo(S, n) == UNION {[1..k -> S] : k \in 0..n}

\* __init__, one suppress_entity: a module object or anything whose path
\* exists becomes the resolved Path (the package directory for an
\* __init__.py); everything else is kept as it was given
InitEntity(e, entries) ==
    LET path == e.s
    IN  IF Exists(path, entries)
        THEN Path(Resolve(IF PathName(path) = InitPy
                          THEN PathParent(Resolve(path))
                          ELSE path))
        ELSE e

\* __init__, the loop that fills self.suppress
InitSuppress(arg, entries) == [i \in 1..Len(arg) |-> InitEntity(arg[i], entries)]

\* the loop body's rewrite of frame_filename for a str entry
StripModuleSuffixes(ff) ==
    RemoveSuffix(
        RemoveSuffix(RemoveSuffix(RemoveSuffix(ff, PySuffix), InitStem), <<"/">>),
        <<"\\">>)

\* _check_should_suppress, from entry i on, with frame_filename as the
\* earlier iterations left it.  The method asserts every entry to be a str
\* or a Path: there is no arm for a module object.
RECURSIVE CheckFrom(_, _, _)
CheckFrom(sup, ff, i) ==
    IF i > Len(sup) THEN FALSE
    ELSE CASE sup[i].kind = "Path" ->
                 IF StartsWith(ff, sup[i].s) THEN TRUE
                 ELSE CheckFrom(sup, ff, i + 1)
           [] sup[i].kind = "str" ->
                 LET stripped == StripModuleSuffixes(ff)
                 IN  IF Contains(stripped, <<"/">> \o ReplaceDots(sup[i].s))
                     THEN TRUE
                     ELSE CheckFrom(sup, stripped, i + 1)

CheckShouldSuppress(sup, ff) == CheckFrom(sup, ff, 1)

(***************************************************************************)
(* Values of the variables a specification does not use.                   *)
(***************************************************************************)
NoStack == [exc_type |-> 2, exc_value |-> "empty", is_cause |-> FALSE,
            syntax_error |-> FALSE, frames |-> <<>>]
NoOutput == [out |-> <<>>, raised |-> "none"]

IdleSuppress ==
    /\ cwd_entries = {} /\ suppress_arg = <<>> /\ suppress = <<>>
    /\ frame_filename = <<>> /\ should_suppress = FALSE
IdleRender == max_frames = 0 /\ stack = NoStack /\ rendered = NoOutput
IdleExtract ==
    /\ heap = <<>> /\ exc_value = 0 /\ is_cause = FALSE /\ stacks = <<>>
    /\ steps = 0 /\ console = NoOutput
IdleInstall ==
    excepthook = 0 /\ original_hook = 0 /\ returned = <<>> /\ installs = 0

suppressVars == <<cwd_entries, suppress_arg, suppress, frame_filename,
                  should_suppress>>
renderVars == <<max_frames, stack, rendered>>
extractVars == <<heap, exc_value, is_cause, stacks, steps, console>>
installVars == <<excepthook, original_hook, returned, installs>>

(***************************************************************************)
(* CharmingTraceback(suppress=...)._check_should_suppress(frame_filename)  *)
(***************************************************************************)
InitSuppressSpec ==
    /\ pc = "new"
    /\ cwd_entries \in SUBSET CwdNames
    /\ suppress_arg \in SeqsUpTo(ArgEntities, MaxSuppress)
    /\ frame_filename \in FrameFiles
    /\ suppress = <<>> /\ should_suppress = FALSE
    /\ IdleRender /\ IdleExtract /\ IdleInstall

\* CharmingTraceback.__init__
Construct ==
    /\ pc = "new"
    /\ suppress' = InitSuppress(suppress_arg, cwd_entries)
    /\ pc' = "constructed"
    /\ UNCHANGED <<cwd_entries, suppress_arg, frame_filename, should_suppress,
                   renderVars, extractVars, installVars>>

\* CharmingTraceback._check_should_suppress
CallCheckShouldSuppress ==
    /\ pc = "constructed"
    /\ should_suppress' = CheckShouldSuppress(suppress, frame_filename)
    /\ pc' = "checked"
    /\ UNCHANGED <<cwd_entries, suppress_arg, suppress, frame_filename,
                   renderVars, extractVars, installVars>>

NextSuppress == Construct \/ CallCheckShouldSuppress

SpecSuppress == InitSuppressSpec /\ [][NextSuppress]_vars

\* the assertion of _check_should_suppress: self.suppress holds no module
SuppressEntriesAsserted ==
    \A i \in 1..Len(suppress) : suppress[i].kind \in {"str", "Path"}

(***************************************************************************)
(* _render_stack.  What it yields is a sequence of lines; a line is        *)
(*   header         the "Traceback (most recent call last)" panel          *)
(*   hidden         "... n frames hidden ..."                              *)
(*   collapsed      the connector of a suppressed frame                    *)
(*   panel          a frame's panel: content "syntax" (the highlighted     *)
(*                  source), "notice" (Caught <type> when rendering code   *)
(*                  from <file>, with the message) or "none"               *)
(*   locator        _render_path's File "<path>", line <n> in <function>,  *)
(*                  with "(suppressed)" when suppressed is TRUE            *)
(*   plain_locator  the "in <filename>" text of a file not on disk         *)
(*   blank          the empty line after the last frame                    *)
(* frame is the 1-based position of the frame the line belongs to.         *)
(* Frames carry no locals (show_locals is False, the default), so          *)
(* render_locals yields nothing.                                           *)
(***************************************************************************)
Line(kind, frame, suppressed, content, n) ==
    [kind |-> kind, frame |-> frame, suppressed |-> suppressed,
     content |-> content, n |-> n]

Frame(filename) == [filename |-> filename]

\* the try block of _render_stack: read_code, _guess_lexer and Syntax(...)
\* either build panel_content or raise.  A failure is an Exception; exits
\* that are not (KeyboardInterrupt, SystemExit) are no failures of the call
\* and are not modelled.  panel_content starts as None.
TryRenderCode(filename) ==
    IF filename = FileBad
    THEN [content |-> "none", error |-> "Exception"]
    ELSE [content |-> "syntax", error |-> "none"]

\* a handler that lets the failure go on to the caller
ExceptRenderCodeUnhandled(attempt) == attempt

\* `except Exception as error`: panel_content becomes the notice naming
\* type(error).__name__ and the message, and the failure is handled
ExceptRenderCode(attempt) ==
    IF attempt.error = "Exception"
    THEN [content |-> "notice", error |-> "none"]
    ELSE attempt

\* exclude_frames = range(max_frames // 2, len(stack.frames) - max_frames // 2),
\* None when max_frames is 0
ExcludeStart(mf) == mf \div 2
ExcludeStop(total, mf) == total - mf \div 2

\* len(exclude_frames)
ExcludeLen(total, mf) ==
    IF ExcludeStop(total, mf) > ExcludeStart(mf)
    THEN ExcludeStop(total, mf) - ExcludeStart(mf)
    ELSE 0

\* the window test without the `self.max_frames != 0` guard
IsExcludedWithoutZeroGuard(i, total, mf) ==
    /\ ExcludeLen(total, mf) > 0
    /\ ExcludeStart(mf) <= i - 1
    /\ i - 1 < ExcludeStop(total, mf)

\* `exclude_frames and (frame_index in exclude_frames)`, frame_index = i - 1
IsExcluded(i, total, mf) ==
    /\ mf # 0
    /\ ExcludeLen(total, mf) > 0
    /\ ExcludeStart(mf) <= i - 1
    /\ i - 1 < ExcludeStop(total, mf)

\* `suppressed` without the is_last override
FrameSuppressedWithoutOverride(sup, frames, i) ==
    CheckShouldSuppress(sup, frames[i].filename)

\* `suppressed`, after the is_last override
FrameSuppressed(sup, frames, i) ==
    IF i = Len(frames) THEN FALSE
    ELSE CheckShouldSuppress(sup, frames[i].filename)

\* the locator a frame ends with: _render_path for a file on disk, the
\* plain "in <filename>" text otherwise
LocatorLine(filename, i, suppressed, entries) ==
    IF Exists(filename, entries)
    THEN Line("locator", i, suppressed, "", 0)
    ELSE Line("plain_locator", i, FALSE, "", 0)

\* a frame body that builds the panel for a suppressed frame as well
FrameBodyWithoutCollapse(filename, i, suppressed) ==
    IF StartsWith(filename, <<"<">>) THEN [out |-> <<>>, raised |-> "none"]
    ELSE LET attempt == ExceptRenderCode(TryRenderCode(filename))
         IN  [out |-> <<Line("panel", i, FALSE, attempt.content, 0)>>,
              raised |-> attempt.error]

\* what one displayed frame yields before its locator, and what it lets
\* through: nothing for a frozen module, the connector for a suppressed
\* frame, else the panel the finally clause yields, after which a failure
\* the except clause did not handle goes on to the caller
FrameBody(filename, i, suppressed) ==
    IF StartsWith(filename, <<"<">>) THEN [out |-> <<>>, raised |-> "none"]
    ELSE IF suppressed
         THEN [out |-> <<Line("collapsed", i, TRUE, "", 0)>>, raised |-> "none"]
         ELSE LET attempt == ExceptRenderCode(TryRenderCode(filename))
              IN  [out |-> <<Line("panel", i, FALSE, attempt.content, 0)>>,
                   raised |-> attempt.error]

\* the loop of _render_stack from frame i on; `excluded` is the flag of the
\* same name, acc what was yielded so far
RECURSIVE RenderFrom(_, _, _, _, _, _, _)
RenderFrom(frames, sup, mf, entries, i, excluded, acc) ==
    IF i > Len(frames) THEN [out |-> acc, raised |-> "none"]
    ELSE
      LET head == IF i = 1 THEN <<Line("header", 0, FALSE, "", 0)>> ELSE <<>>
      IN  IF IsExcluded(i, Len(frames), mf)
          THEN RenderFrom(frames, sup, mf, entries, i + 1, TRUE, acc \o head)
          ELSE
            LET marker == IF excluded
                          THEN <<Line("hidden", 0, FALSE, "",
                                      ExcludeLen(Len(frames), mf))>>
                          ELSE <<>>
                suppressed == FrameSuppressed(sup, frames, i)
                body == FrameBody(frames[i].filename, i, suppressed)
                tail == <<LocatorLine(frames[i].filename, i, suppressed, entries)>>
                        \o (IF i = Len(frames)
                            THEN <<Line("blank", 0, FALSE, "", 0)>> ELSE <<>>)
            IN  IF body.raised # "none"
                THEN [out |-> acc \o head \o marker \o body.out,
                      raised |-> body.raised]
                ELSE RenderFrom(frames, sup, mf, entries, i + 1, FALSE,
                                acc \o head \o marker \o body.out \o tail)

RenderStack(frames, sup, mf, entries) ==
    RenderFrom(frames, sup, mf, entries, 1, FALSE, <<>>)

(***************************************************************************)
(* extract.  An exception object is known by its id (1, 2, ...); 0 is      *)
(* None.  Exception objects are truthy, so `if cause:` asks for a cause    *)
(* that is not None.  The walk learns an object's attributes when it first *)
(* reaches it; they are fixed from then on (heap).  An object has          *)
(*   cause, context     __cause__, __context__ (ids, 0 for None)           *)
(*   suppress_context   __suppress_context__                               *)
(*   shape              "text": str() gives a non-empty message            *)
(*                      "empty": str() gives ""                            *)
(*                      "unprintable": str() raises                        *)
(*                      "syntax": a SyntaxError, str() gives a message     *)
(*   tb                 __traceback__ as walk_tb yields it: raw entries    *)
(*                      with their file name and the two marker locals     *)
(***************************************************************************)
SitePackages == <<"/", "l">>            \* _SITE_PACKAGES_DIRECTORY

RawEntry(filename, omit, guard) ==
    [filename |-> filename, omit |-> omit, guard |-> guard]

\* the file name extract records for a raw entry: a relative name that is
\* not a "<...>" marker is joined to the site-packages directory, and an
\* empty name becomes "?"
RecordedFilename(filename) ==
    IF filename = <<>> THEN <<"?">>
    ELSE IF filename[1] # "<" /\ filename[1] # "/"
         THEN SitePackages \o <<"/">> \o filename
         ELSE filename

\* the walk_tb loop from raw entry i on, acc being stack.frames so far: an
\* entry with _rich_traceback_omit is skipped, any other is appended, and
\* one with _rich_traceback_guard then empties stack.frames
RECURSIVE CaptureFrom(_, _, _)
CaptureFrom(tb, i, acc) ==
    IF i > Len(tb) THEN acc
    ELSE IF tb[i].omit THEN CaptureFrom(tb, i + 1, acc)
         ELSE IF tb[i].guard THEN CaptureFrom(tb, i + 1, <<>>)
              ELSE CaptureFrom(tb, i + 1,
                               Append(acc, Frame(RecordedFilename(tb[i].filename))))

\* a walk_tb loop that skips the omitted entries and has no guard test
CaptureFramesWithoutGuard(tb) ==
    LET kept == SelectSeq(tb, LAMBDA entry : ~entry.omit)
    IN  [i \in 1..Len(kept) |-> Frame(RecordedFilename(kept[i].filename))]

CaptureFrames(tb) == CaptureFrom(tb, 1, <<>>)

\* str() without the try: a failure goes on to the caller
SafeStrUnguarded(shape) ==
    CASE shape = "unprintable" -> [text |-> "none", raised |-> "Exception"]
      [] shape = "empty" -> [text |-> "empty", raised |-> "none"]
      [] OTHER -> [text |-> "text", raised |-> "none"]

\* safe_str: str(_object), or "<exception str() failed>" when str() raises an
\* Exception (exits that are no Exception are not modelled)
SafeStr(shape) ==
    CASE shape = "unprintable" -> [text |-> "placeholder", raised |-> "none"]
      [] shape = "empty" -> [text |-> "empty", raised |-> "none"]
      [] OTHER -> [text |-> "text", raised |-> "none"]

\* a walk that follows __cause__ alone
FollowedLinkCauseOnly(e) == IF e.cause # 0 THEN "cause" ELSE "stop"

\* a walk that looks at __context__ before __cause__
FollowedLinkContextFirst(e) ==
    IF e.context # 0 /\ ~e.suppress_context THEN "context"
    ELSE IF e.cause # 0 THEN "cause"
         ELSE "stop"

\* the link the loop follows from an exception object: "cause", "context"
\* or "stop"
FollowedLink(e) ==
    IF e.cause # 0 THEN "cause"
    ELSE IF e.context # 0 /\ ~e.suppress_context THEN "context"
         ELSE "stop"

ExcShapes == {"text", "empty", "unprintable", "syntax"}

\* the tracebacks of the chain walk: None, or one frame of user code
ChainTracebacks == {<<>>, <<RawEntry(FileUser, FALSE, FALSE)>>}

\* the attributes an object reached as the n-th distinct one may have: its
\* links lead to None, to an object already reached or to the next new one
ExcObjects(n) ==
    LET targets == 0..(IF n + 1 <= MaxExc THEN n + 1 ELSE MaxExc)
    IN  [cause : targets, context : targets, suppress_context : BOOLEAN,
         shape : ExcShapes, tb : ChainTracebacks]

DefaultMaxFrames == 100

(***************************************************************************)
(* __rich_console__: the nodes in reverse, each with its frames (when it   *)
(* has any), its exception type line, and a connector unless it is last.   *)
(*   syntax_error   the panel of _render_syntax_error                      *)
(*   exc_type       the exception type line; n is the node's exc_type,     *)
(*                  content "msg" (with syntax_error.msg), "value" (with   *)
(*                  exc_value) or "bare"                                   *)
(*   connector      content "cause": The above exception was the direct    *)
(*                  cause of the following exception; "context": During    *)
(*                  handling of the above exception, another occurred      *)
(***************************************************************************)
TypeLines(st) ==
    IF st.syntax_error
    THEN <<Line("syntax_error", 0, FALSE, "", st.exc_type),
           Line("exc_type", 0, FALSE, "msg", st.exc_type),
           Line("blank", 0, FALSE, "", 0)>>
    ELSE IF st.exc_value # "empty"
         THEN <<Line("exc_type", 0, FALSE, "value", st.exc_type),
                Line("blank", 0, FALSE, "", 0)>>
         ELSE <<Line("exc_type", 0, FALSE, "bare", st.exc_type),
                Line("blank", 0, FALSE, "", 0)>>

\* a connector after every node, the last one too
ConnectorLinesAfterEvery(st, last) ==
    IF st.is_cause
    THEN <<Line("connector", 0, FALSE, "cause", st.exc_type)>>
    ELSE <<Line("connector", 0, FALSE, "context", st.exc_type)>>

\* the connector after a node that is not the last one rendered
ConnectorLines(st, last) ==
    IF last THEN <<>>
    ELSE IF st.is_cause
         THEN <<Line("connector", 0, FALSE, "cause", st.exc_type)>>
         ELSE <<Line("connector", 0, FALSE, "context", st.exc_type)>>

\* the loop over reversed(self.trace.stacks), from position idx down
RECURSIVE ConsoleFrom(_, _, _, _, _, _)
ConsoleFrom(sts, sup, mf, entries, idx, acc) ==
    IF idx = 0 THEN [out |-> acc, raised |-> "none"]
    ELSE
      LET st == sts[idx]
          frames == IF st.frames # <<>>
                    THEN RenderStack(st.frames, sup, mf, entries)
                    ELSE [out |-> <<>>, raised |-> "none"]
      IN  IF frames.raised # "none"
          THEN [out |-> acc \o frames.out, raised |-> frames.raised]
          ELSE ConsoleFrom(sts, sup, mf, entries, idx - 1,
                           acc \o frames.out \o TypeLines(st)
                               \o ConnectorLines(st, idx = 1))

\* a loop over self.trace.stacks as extract stored them, not reversed
RichConsoleInStoredOrder(sts, sup, mf, entries) ==
    ConsoleFrom([i \in 1..Len(sts) |-> sts[Len(sts) + 1 - i]], sup, mf, entries,
                Len(sts), <<>>)

RichConsole(sts, sup, mf, entries) ==
    ConsoleFrom(sts, sup, mf, entries, Len(sts), <<>>)

(***************************************************************************)
(* extract(type(e), e, e.__traceback__) on the active exception, object 1, *)
(* then CharmingTraceback(trace) printed with the defaults of              *)
(* print_exception.                                                        *)
(***************************************************************************)
Init ==
    /\ pc = "walk"
    /\ heap = <<>> /\ exc_value = 1 /\ is_cause = FALSE /\ stacks = <<>>
    /\ steps = 0 /\ console = NoOutput
    /\ max_frames = DefaultMaxFrames /\ stack = NoStack /\ rendered = NoOutput
    /\ IdleSuppress /\ IdleInstall

\* one iteration of extract's `while True`
WalkStep ==
    /\ pc = "walk"
    /\ steps < MaxSteps
    /\ \E e \in (IF exc_value > Len(heap) THEN ExcObjects(Len(heap) + 1)
                 ELSE {heap[exc_value]}) :
         LET text == SafeStr(e.shape)
             node == [exc_type |-> exc_value, exc_value |-> text.text,
                      is_cause |-> is_cause,
                      syntax_error |-> (e.shape = "syntax"),
                      frames |-> CaptureFrames(e.tb)]
         IN  /\ heap' = IF exc_value > Len(heap) THEN Append(heap, e) ELSE heap
             /\ steps' = steps + 1
             /\ IF text.raised # "none"
                THEN /\ pc' = "raised"
                     /\ UNCHANGED <<exc_value, is_cause, stacks>>
                ELSE /\ stacks' = Append(stacks, node)
                     /\ CASE FollowedLink(e) = "cause" ->
                               /\ exc_value' = e.cause
                               /\ is_cause' = TRUE
                               /\ pc' = "walk"
                          [] FollowedLink(e) = "context" ->
                               /\ exc_value' = e.context
                               /\ is_cause' = FALSE
                               /\ pc' = "walk"
                          [] FollowedLink(e) = "stop" ->
                               /\ pc' = "returned"
                               /\ UNCHANGED <<exc_value, is_cause>>
    /\ UNCHANGED <<console, suppressVars, renderVars, installVars>>

\* CharmingTraceback.__rich_console__ on the returned trace
CallRichConsole ==
    /\ pc = "returned"
    /\ console' = RichConsole(stacks, suppress, max_frames, cwd_entries)
    /\ pc' = "printed"
    /\ UNCHANGED <<heap, exc_value, is_cause, stacks, steps, suppressVars,
                   renderVars, installVars>>

Next == WalkStep \/ CallRichConsole

Spec == Init /\ [][Next]_vars

(***************************************************************************)
(* CharmingTraceback(suppress=..., max_frames=...)._render_stack(stack)    *)
(***************************************************************************)
RenderFiles == {FileJD, FileUser, FileFrozen, FileGone, FileBad}

RenderSuppressArgs ==
    {<<>>, <<Module(FileJInit)>>, <<Str(NameJ)>>, <<Str(NameJ), Path(FileGone)>>}

\* the node of the active exception in the traces of this specification:
\* the node under test is its context
ActiveStack ==
    [exc_type |-> 1, exc_value |-> "text", is_cause |-> FALSE,
     syntax_error |-> FALSE, frames |-> <<Frame(FileUser)>>]

StackOf(filenames) ==
    [NoStack EXCEPT !.frames = [i \in 1..Len(filenames) |-> Frame(filenames[i])]]

InitRenderSpec ==
    /\ pc = "new"
    /\ cwd_entries \in {{}, {NameJ}}
    /\ suppress_arg \in RenderSuppressArgs
    /\ max_frames \in 0..MaxMaxFrames
    /\ stack \in {StackOf(fs) : fs \in SeqsUpTo(RenderFiles, MaxStackLen)}
    /\ suppress = <<>> /\ frame_filename = <<>> /\ should_suppress = FALSE
    /\ rendered = NoOutput
    /\ heap = <<>> /\ exc_value = 0 /\ is_cause = FALSE /\ steps = 0
    /\ stacks = <<ActiveStack, stack>>
    /\ console = NoOutput
    /\ IdleInstall

\* CharmingTraceback._render_stack
CallRenderStack ==
    /\ pc = "constructed"
    /\ rendered' = RenderStack(stack.frames, suppress, max_frames, cwd_entries)
    /\ pc' = "rendered"
    /\ UNCHANGED <<suppressVars, max_frames, stack, extractVars, installVars>>

\* CharmingTraceback.__rich_console__ on the trace [active, stack]
PrintTrace ==
    /\ pc = "constructed"
    /\ console' = RichConsole(stacks, suppress, max_frames, cwd_entries)
    /\ pc' = "printed"
    /\ UNCHANGED <<heap, exc_value, is_cause, stacks, steps, suppressVars,
                   renderVars, installVars>>

NextRender == Construct \/ CallRenderStack \/ PrintTrace

SpecRender == InitRenderSpec /\ [][NextRender]_vars

(***************************************************************************)
(* extract on an exception without __cause__ and __context__, whose        *)
(* traceback holds marked entries, then __rich_console__.                  *)
(***************************************************************************)
\* co_filename of the raw entries: absolute, relative, empty
RawFiles == {FileUser, FileRel, <<>>}

RawEntries ==
    {RawEntry(f, omit, guard) : f \in RawFiles, omit \in BOOLEAN, guard \in BOOLEAN}

InitCaptureSpec ==
    /\ pc = "walk"
    /\ heap \in {<<e>> : e \in [cause : {0}, context : {0},
                                suppress_context : {FALSE},
                                shape : {"text", "empty"},
                                tb : SeqsUpTo(RawEntries, MaxTbLen)]}
    /\ exc_value = 1 /\ is_cause = FALSE /\ stacks = <<>>
    /\ steps = 0 /\ console = NoOutput
    /\ max_frames = DefaultMaxFrames /\ stack = NoStack /\ rendered = NoOutput
    /\ IdleSuppress /\ IdleInstall

SpecCapture == InitCaptureSpec /\ [][Next]_vars

(***************************************************************************)
(* extract on object 1 of a given set of exception objects, whose links    *)
(* may lead anywhere in the set, then __rich_console__.  The loop of       *)
(* extract runs on by itself: an iteration that can be taken is taken.     *)
(***************************************************************************)
\* the sets of n exception objects: messages print, no tracebacks
LinkedObjects(n) ==
    [1..n -> [cause : 0..n, context : 0..n, suppress_context : BOOLEAN,
              shape : {"text"}, tb : {<<>>}]]

InitWalkSpec ==
    /\ pc = "walk"
    /\ heap \in UNION {LinkedObjects(n) : n \in 1..MaxExc}
    /\ exc_value = 1 /\ is_cause = FALSE /\ stacks = <<>>
    /\ steps = 0 /\ console = NoOutput
    /\ max_frames = DefaultMaxFrames /\ stack = NoStack /\ rendered = NoOutput
    /\ IdleSuppress /\ IdleInstall

SpecWalk == InitWalkSpec /\ [][Next]_vars /\ WF_vars(WalkStep)

(***************************************************************************)
(* installation.install and the global hook slot sys.excepthook.  A hook   *)
(* is known by a number: negative for hooks that are not install()'s (the  *)
(* interpreter's own, an IDE's), k > 0 for the closure the k-th install()  *)
(* call creates.                                                           *)
(***************************************************************************)
ForeignHooks == {-1, -2}

\* what install() returns: the hook found in the slot
InstallReturnsNothing(slot) == 0

InstallReturn(slot) == slot

InitInstallSpec ==
    /\ pc = "hooks"
    /\ original_hook \in ForeignHooks
    /\ excepthook = original_hook
    /\ returned = <<>> /\ installs = 0
    /\ IdleSuppress /\ IdleRender /\ IdleExtract

\* install(): old = sys.excepthook; sys.excepthook = excepthook; return old
Install ==
    /\ installs < MaxInstalls
    /\ installs' = installs + 1
    /\ returned' = Append(returned, InstallReturn(excepthook))
    /\ excepthook' = installs + 1
    /\ pc' = "installed"
    /\ UNCHANGED <<original_hook, suppressVars, renderVars, extractVars>>

\* the caller's restore: sys.excepthook = <a value install() returned>
Restore ==
    /\ \E k \in DOMAIN returned :
         /\ excepthook' = returned[k]
         /\ pc' = IF k = 1 THEN "restored" ELSE "reverted"
    /\ UNCHANGED <<original_hook, returned, installs, suppressVars, renderVars,
                   extractVars>>

\* after an installation, another component (an IDE, a test runner) puts
\* its own hook in the slot
AssignForeign ==
    /\ installs > 0
    /\ \E h \in ForeignHooks :
         /\ excepthook' = h
         /\ pc' = "foreign"
    /\ UNCHANGED <<original_hook, returned, installs, suppressVars, renderVars,
                   extractVars>>

NextInstall == Install \/ Restore \/ AssignForeign

SpecInstall == InitInstallSpec /\ [][NextInstall]_vars

(***************************************************************************)
(* Claims about _check_should_suppress.                                    *)
(***************************************************************************)
\* some entry of self.suppress is a Path whose string form is a prefix of
\* the frame's file name
HasMatchingPathEntry ==
    \E i \in 1..Len(suppress) :
        suppress[i].kind = "Path" /\ StartsWith(frame_filename, suppress[i].s)

\* C10: whenever self.suppress contains a path entry P and the frame's file
\* path starts with str(P), _check_should_suppress returns True, whatever
\* the other entries are and wherever P stands.
C10_PathPrefixSuppresses ==
    (pc = "checked" /\ HasMatchingPathEntry) => should_suppress

\* the entries self.suppress can hold in the current working directory
SuppressEntries == {InitEntity(e, cwd_entries) : e \in ArgEntities}

\* the set of entries of a list
EntrySet(L) == {L[i] : i \in DOMAIN L}

\* the lists that hold every entry of self.suppress: its permutations and
\* the lists made by adding entries
ListsHoldingSuppress ==
    {L \in SeqsUpTo(SuppressEntries, MaxSuppress + 1) :
        EntrySet(suppress) \subseteq EntrySet(L)}

\* C14: the result of _check_should_suppress depends only on the set of
\* suppression entries, not on their order, and is monotone in that set: a
\* frame suppressed under a list is suppressed under every permutation of
\* the list and under every list obtained by adding entries to it.
C14_OrderIndependentAndMonotone ==
    (pc = "checked" /\ should_suppress) =>
        \A L \in ListsHoldingSuppress : CheckShouldSuppress(L, frame_filename)

(***************************************************************************)
(* Claims about _render_stack.                                             *)
(***************************************************************************)
\* the positions of rendered.out that hold a line of one of the kinds, for
\* frame f
LinesFor(kinds, f) ==
    {k \in DOMAIN rendered.out :
        rendered.out[k].kind \in kinds /\ rendered.out[k].frame = f}

LinesOfKind(kinds) == {k \in DOMAIN rendered.out : rendered.out[k].kind \in kinds}

Total == Len(stack.frames)

\* C2: _render_stack never renders the innermost (last) frame of a node as
\* suppressed: none of the lines of that frame is the collapsed connector
\* or carries the "(suppressed)" annotation, also when the frame's file
\* matches an entry of the suppression list.
C2_InnermostNeverSuppressed ==
    pc = "rendered" =>
        \A k \in DOMAIN rendered.out :
            rendered.out[k].frame = Total => ~rendered.out[k].suppressed

\* the innermost frame's file matches the suppression list, earlier frames
\* are shown suppressed, and the innermost has its un-annotated locator
C2_Witness ==
    /\ pc = "rendered"
    /\ Total >= 2
    /\ CheckShouldSuppress(suppress, stack.frames[Total].filename)
    /\ \E k \in LinesFor({"locator"}, Total - 1) : rendered.out[k].suppressed
    /\ \E k \in LinesFor({"locator"}, Total) : ~rendered.out[k].suppressed

\* the frame's file belongs to package j
InPackageJ(filename) == StartsWith(filename, LibJ \o <<"/">>)

\* the number of frames of package j before the innermost frame
FramesOfJBeforeLast ==
    Cardinality({f \in 1..(Total - 1) : InPackageJ(stack.frames[f].filename)})

\* C3: when the frames of a suppressed module appear k times before the
\* innermost frame and the innermost frame is the module's too, the output
\* has exactly k locator lines annotated "(suppressed)" and exactly one
\* un-annotated locator line for the innermost frame, the same whether the
\* module was passed as a module object or as its dotted name.
C3_SuppressedCountsByObjectOrName ==
    ( /\ pc = "rendered"
      /\ suppress_arg \in {<<Module(FileJInit)>>, <<Str(NameJ)>>}
      /\ max_frames = 0
      /\ Total >= 1
      /\ InPackageJ(stack.frames[Total].filename) )
    => /\ Cardinality({k \in LinesOfKind({"locator"}) : rendered.out[k].suppressed})
            = FramesOfJBeforeLast
       /\ Cardinality({k \in LinesFor({"locator"}, Total) :
                          ~rendered.out[k].suppressed}) = 1

\* C4: a node with more frames than a non-zero max_frames renders exactly
\* one "frames hidden" marker, whose count is total - max_frames.
C4_OneMarkerCountingTotalMinusMax ==
    (pc = "rendered" /\ max_frames # 0 /\ Total > max_frames)
    => /\ Cardinality(LinesOfKind({"hidden"})) = 1
       /\ \A k \in LinesOfKind({"hidden"}) :
              rendered.out[k].n = Total - max_frames

\* C5: with max_frames = 0 no frame is hidden and no "frames hidden" marker
\* is rendered, whatever the frame count: every frame of the node has a
\* locator line of its own.
C5_ZeroMaxFramesHidesNothing ==
    (pc = "rendered" /\ max_frames = 0)
    => /\ LinesOfKind({"hidden"}) = {}
       /\ \A f \in 1..Total :
              Cardinality(LinesFor({"locator", "plain_locator"}, f)) = 1

\* a node as long as the model allows, rendered in full with max_frames = 0
C5_Witness ==
    /\ pc = "rendered"
    /\ max_frames = 0
    /\ Total >= 3
    /\ Cardinality(LinesOfKind({"locator", "plain_locator"})) = Total

\* the frames whose panel is built by the try block: displayed, not frozen,
\* not suppressed; and among them those whose source fails to render
PanelFrames ==
    {f \in 1..Total :
        /\ ~IsExcluded(f, Total, max_frames)
        /\ ~StartsWith(stack.frames[f].filename, <<"<">>)
        /\ ~FrameSuppressed(suppress, stack.frames, f)}

FailingFrames ==
    {f \in PanelFrames : TryRenderCode(stack.frames[f].filename).error # "none"}

\* the same node with every failing source replaced by a sound one
HealedFrames ==
    [f \in 1..Total |->
        IF stack.frames[f].filename = FileBad THEN Frame(FileUser)
        ELSE stack.frames[f]]

\* in what _render_stack yields: every failing frame has the notice in its
\* panel and its locator line, nothing goes on to the caller, and every
\* other line of the node is what it is when no source fails
NodeUnaffectedBySourceFailure ==
    pc = "rendered" =>
        LET sound == RenderStack(HealedFrames, suppress, max_frames, cwd_entries)
        IN  /\ rendered.raised = "none"
            /\ \A f \in FailingFrames :
                   /\ \E k \in LinesFor({"panel"}, f) :
                          rendered.out[k].content = "notice"
                   /\ Cardinality(LinesFor({"locator", "plain_locator"}, f)) = 1
            /\ Len(rendered.out) = Len(sound.out)
            /\ \A k \in DOMAIN rendered.out :
                   IF rendered.out[k].kind = "panel"
                      /\ rendered.out[k].frame \in FailingFrames
                   THEN sound.out[k] = [rendered.out[k] EXCEPT !.content = "syntax"]
                   ELSE sound.out[k] = rendered.out[k]

\* in what __rich_console__ yields for the trace: the failing frames change
\* nothing but their own panels, nothing goes on to the caller, and every
\* node has its exception type line
TraceUnaffectedBySourceFailure ==
    pc = "printed" =>
        LET sound == RichConsole(<<stacks[1], [stacks[2] EXCEPT !.frames = HealedFrames]>>,
                                 suppress, max_frames, cwd_entries)
        IN  /\ console.raised = "none"
            /\ Cardinality({k \in DOMAIN console.out :
                                console.out[k].kind = "exc_type"}) = Len(stacks)
            /\ Len(console.out) = Len(sound.out)
            /\ \A k \in DOMAIN console.out :
                   \/ sound.out[k] = console.out[k]
                   \/ /\ console.out[k].kind = "panel"
                      /\ console.out[k].content = "notice"
                      /\ sound.out[k] = [console.out[k] EXCEPT !.content = "syntax"]

\* C9: when rendering the source of a non-suppressed frame fails in
\* _render_stack, that frame's panel holds the inline notice, nothing goes
\* on to the caller, the failing frame still has its locator line and the
\* node its exception type line, and every other frame of the node and
\* every other node of the trace is rendered as it is without the failure.
C9_SourceFailureIsInlineNotice ==
    NodeUnaffectedBySourceFailure /\ TraceUnaffectedBySourceFailure

\* a node where one frame's source fails between two frames that render
C9_Witness ==
    /\ pc = "rendered"
    /\ Total >= 3
    /\ Cardinality(FailingFrames) = 1
    /\ \E f \in FailingFrames :
           /\ 1 < f /\ f < Total
           /\ \E k \in LinesFor({"panel"}, f - 1) : rendered.out[k].content = "syntax"
           /\ \E k \in LinesFor({"panel"}, f + 1) : rendered.out[k].content = "syntax"

\* the lines _render_stack yielded for frame f, in order
FrameLines(f) == SelectSeq(rendered.out, LAMBDA l : l.frame = f)

\* the frames the window does not hide
RenderedFrames == {f \in 1..Total : ~IsExcluded(f, Total, max_frames)}

IsFrozen(f) == StartsWith(stack.frames[f].filename, <<"<">>)

OnDisk(f) == Exists(stack.frames[f].filename, cwd_entries)

\* C13: every frame _render_stack classifies as suppressed renders as
\* exactly one collapsed connector line followed by a file/line/function
\* locator line annotated "(suppressed)", with no source panel; every
\* rendered frame that is not suppressed renders a source panel (or the
\* inline failure notice) followed by a locator line without the
\* annotation.
C13_SuppressedIsConnectorAndAnnotatedLocator ==
    pc = "rendered" =>
        \A f \in RenderedFrames :
            LET lines == FrameLines(f)
            IN  /\ Len(lines) = 2
                /\ IF FrameSuppressed(suppress, stack.frames, f)
                   THEN /\ lines[1].kind = "collapsed"
                        /\ lines[2].kind = "locator"
                        /\ lines[2].suppressed
                   ELSE /\ lines[1].kind = "panel"
                        /\ lines[1].content \in {"syntax", "notice"}
                        /\ lines[2].kind \in {"locator", "plain_locator"}
                        /\ ~lines[2].suppressed

\* C13, amended: the annotation needs the file to be on disk, and the
\* frame of a frozen module has no panel.  A suppressed frame that is no
\* frozen module renders as exactly one collapsed connector line, no
\* panel, and one locator: the file/line/function locator annotated
\* "(suppressed)" when its file is on disk, the plain "in <file>" locator
\* without annotation when it is not.  A rendered frame that is not
\* suppressed renders one locator without the annotation, preceded by one
\* panel (source or failure notice) unless it is a frozen module's, which
\* renders the locator alone.
C13_SuppressedIsConnectorAndLocator ==
    pc = "rendered" =>
        \A f \in RenderedFrames :
            LET lines == FrameLines(f)
                locator == lines[Len(lines)]
            IN  /\ Len(lines) = (IF IsFrozen(f) THEN 1 ELSE 2)
                /\ locator.kind = (IF OnDisk(f) THEN "locator" ELSE "plain_locator")
                /\ IF FrameSuppressed(suppress, stack.frames, f) /\ ~IsFrozen(f)
                   THEN /\ lines[1].kind = "collapsed"
                        /\ locator.suppressed <=> OnDisk(f)
                   ELSE /\ ~locator.suppressed
                        /\ ~IsFrozen(f) =>
                               /\ lines[1].kind = "panel"
                               /\ lines[1].content \in {"syntax", "notice"}

\* a node with a suppressed frame on disk, a suppressed frame not on disk
\* and a last frame shown in full
C13_Witness ==
    /\ pc = "rendered"
    /\ Total = 3
    /\ RenderedFrames = {1, 2, 3}
    /\ FrameSuppressed(suppress, stack.frames, 1) /\ OnDisk(1)
    /\ FrameSuppressed(suppress, stack.frames, 2) /\ ~OnDisk(2)
    /\ FrameLines(1)[1].kind = "collapsed" /\ FrameLines(1)[2].suppressed
    /\ FrameLines(2)[1].kind = "collapsed" /\ FrameLines(2)[2].kind = "plain_locator"
    /\ FrameLines(3)[1].kind = "panel" /\ FrameLines(3)[2].kind = "locator"

\* the frames that have a locator line in what _render_stack yielded
ShownFrames ==
    {f \in 1..Total : LinesFor({"locator", "plain_locator"}, f) # {}}

\* C15: for a node whose frame count does not exceed a non-zero
\* max_frames, _render_stack hides no frame and renders no "frames hidden"
\* marker; and for every node and every non-zero max_frames, the number of
\* frames rendered never exceeds max_frames.
C15_WithinMaxNothingHidden ==
    (pc = "rendered" /\ max_frames # 0) =>
        /\ Total <= max_frames =>
               /\ ShownFrames = 1..Total
               /\ LinesOfKind({"hidden"}) = {}
        /\ Cardinality(ShownFrames) <= max_frames

\* C16: for a node with at least one frame and any max_frames >= 0, the
\* frame window never hides the innermost (last) frame: _render_stack
\* yields a locator line for it, and whenever a frame is hidden a "frames
\* hidden" marker is yielded.
C16_InnermostNeverHidden ==
    (pc = "rendered" /\ Total >= 1) =>
        /\ Total \in ShownFrames
        /\ ShownFrames # 1..Total => LinesOfKind({"hidden"}) # {}

(***************************************************************************)
(* Claims about extract and __rich_console__.                              *)
(***************************************************************************)
\* the exception object node k of the trace was made from
ObjectOf(k) == heap[stacks[k].exc_type]

\* the walk went from node k on to `target`, flagged `flag`: the next node
\* is the target's, or the loop variables hold it for the next iteration
WentOn(k, target, flag) ==
    IF k < Len(stacks)
    THEN stacks[k + 1].exc_type = target /\ stacks[k + 1].is_cause = flag
    ELSE pc = "walk" /\ exc_value = target /\ is_cause = flag

\* C1: at every step of the chain walk, an exception with a __cause__ is
\* followed to that cause, whose node has is_cause = true, also when it has
\* a __context__ as well; else one with a __context__ and a false
\* __suppress_context__ is followed to that context, whose node has
\* is_cause = false; else the walk stops.
C1_CauseBeforeContext ==
    \A k \in DOMAIN stacks :
        IF ObjectOf(k).cause # 0
        THEN WentOn(k, ObjectOf(k).cause, TRUE)
        ELSE IF ObjectOf(k).context # 0 /\ ~ObjectOf(k).suppress_context
             THEN WentOn(k, ObjectOf(k).context, FALSE)
             ELSE k = Len(stacks) /\ pc \in {"returned", "printed"}

\* the active exception has a cause and another object as context, and the
\* walk has made the cause's node
C1_Witness ==
    /\ Len(stacks) >= 2
    /\ ObjectOf(1).cause # 0
    /\ ObjectOf(1).context # 0
    /\ ObjectOf(1).context # ObjectOf(1).cause
    /\ ~ObjectOf(1).suppress_context
    /\ stacks[2].exc_type = ObjectOf(1).cause
    /\ stacks[2].is_cause

\* the positions of console.out that hold a line of one of the kinds
ConsoleLines(kinds) == {k \in DOMAIN console.out : console.out[k].kind \in kinds}

\* the number of __cause__ links the walk followed
CauseLinks == Cardinality({k \in DOMAIN stacks : stacks[k].is_cause})

\* the node rendered just before position p of console.out: the one whose
\* exception type line is the nearest above p
NodeAbove(p) ==
    LET above == {k \in ConsoleLines({"exc_type"}) : k < p}
        nearest == CHOOSE k \in above : \A m \in above : m <= k
    IN  CHOOSE k \in DOMAIN stacks : stacks[k].exc_type = console.out[nearest].n

\* C6: a trace extracted along N __cause__ links alone renders exactly N
\* connector lines, none of them after the last node rendered; every
\* connector reads "direct cause" when the node rendered just before it has
\* is_cause = true and "during handling" otherwise.
C6_ConnectorsOfCauseChain ==
    pc = "printed" =>
        /\ console.raised = "none"
        /\ (CauseLinks = Len(stacks) - 1) =>
               Cardinality(ConsoleLines({"connector"})) = CauseLinks
        /\ \A p \in ConsoleLines({"connector"}) :
               /\ \E q \in ConsoleLines({"exc_type"}) : q > p
               /\ \E q \in ConsoleLines({"exc_type"}) : q < p
               /\ console.out[p].content =
                      (IF stacks[NodeAbove(p)].is_cause THEN "cause" ELSE "context")

\* an exception raised from a cause: one cause link, one connector
C6_Witness ==
    /\ pc = "printed"
    /\ Len(stacks) = 2
    /\ CauseLinks = 1
    /\ Cardinality(ConsoleLines({"connector"})) = 1
    /\ \A p \in ConsoleLines({"connector"}) : console.out[p].content = "cause"

\* C8: in extract, turning an exception into display text never raises: a
\* failure of str() is caught, the node holds the placeholder
\* "<exception str() failed>" instead, and the chain walk goes on.
C8_StrFailureBecomesPlaceholder ==
    /\ pc # "raised"
    /\ Len(stacks) = steps
    /\ \A k \in DOMAIN stacks :
           /\ (stacks[k].exc_value = "placeholder")
                  <=> (ObjectOf(k).shape = "unprintable")
           /\ (ObjectOf(k).shape = "unprintable" /\ ObjectOf(k).cause # 0)
                  => WentOn(k, ObjectOf(k).cause, TRUE)

\* an exception whose str() fails, with a cause the walk went on to
C8_Witness ==
    /\ Len(stacks) >= 2
    /\ ObjectOf(1).shape = "unprintable"
    /\ stacks[1].exc_value = "placeholder"
    /\ stacks[2].exc_type = ObjectOf(1).cause

\* the exception type lines of console.out, in the order they were yielded
ExcTypeLines == SelectSeq(console.out, LAMBDA l : l.kind = "exc_type")

\* C11: extract appends nodes starting with the active exception and moving
\* backward through the chain, and __rich_console__ renders them in the
\* reverse of that order: the root exception first, the active exception
\* last, each node once, with exactly one exception type line.
C11_RenderedInReverseOfExtraction ==
    /\ \A k \in DOMAIN stacks :
           IF k = 1 THEN stacks[k].exc_type = 1
           ELSE stacks[k].exc_type
                    \in {ObjectOf(k - 1).cause, ObjectOf(k - 1).context}
    /\ pc = "printed" =>
           /\ Len(ExcTypeLines) = Len(stacks)
           /\ \A i \in DOMAIN ExcTypeLines :
                  ExcTypeLines[i].n = stacks[Len(stacks) + 1 - i].exc_type
           /\ Cardinality(ConsoleLines({"header"}))
                  = Cardinality({k \in DOMAIN stacks : stacks[k].frames # <<>>})

\* a chain of two exceptions, both with frames: the older one's type line
\* comes first, the active one's last
C11_Witness ==
    /\ pc = "printed"
    /\ Len(stacks) = 2
    /\ stacks[1].frames # <<>> /\ stacks[2].frames # <<>>
    /\ Len(ExcTypeLines) = 2
    /\ ExcTypeLines[1].n = 2
    /\ ExcTypeLines[2].n = 1

\* the raw traceback of the active exception
RawTb == heap[1].tb

\* the position of the last entry that carries the guard marker and no omit
\* marker, 0 when there is none
LastGuard ==
    LET guards == {i \in DOMAIN RawTb : RawTb[i].guard /\ ~RawTb[i].omit}
    IN  IF guards = {} THEN 0 ELSE CHOOSE i \in guards : \A j \in guards : j <= i

\* the positions after the last guard whose entry carries no omit marker,
\* in their original order
KeptPositions ==
    SelectSeq([i \in 1..Len(RawTb) |-> i],
              LAMBDA i : i > LastGuard /\ ~RawTb[i].omit)

\* C12: the frames extract records for a node are exactly the raw entries
\* that carry no omit marker and come after the last non-omitted entry
\* carrying a guard marker (that entry excluded), in their original
\* outermost-first order; an entry carrying both markers is skipped and
\* does not truncate.
C12_FramesAreUnomittedEntriesAfterLastGuard ==
    (Len(heap) = 1 /\ Len(stacks) = 1) =>
        /\ Len(stacks[1].frames) = Len(KeptPositions)
        /\ \A i \in DOMAIN KeptPositions :
               stacks[1].frames[i].filename
                   = RecordedFilename(RawTb[KeptPositions[i]].filename)

\* three raw entries, the middle one with both markers: the two around it
\* are recorded, in order
C12_Witness ==
    /\ pc = "returned"
    /\ Len(heap) = 1 /\ Len(RawTb) = 3
    /\ RawTb[2].omit /\ RawTb[2].guard
    /\ RawTb[1].filename # RawTb[3].filename
    /\ Len(stacks[1].frames) = 2
    /\ stacks[1].frames[1].filename = RecordedFilename(RawTb[1].filename)
    /\ stacks[1].frames[2].filename = RecordedFilename(RawTb[3].filename)

\* extract has returned
Terminated == pc \in {"returned", "printed"}

\* the walk has come to an exception it had visited before
Revisited ==
    \E i, j \in DOMAIN stacks : i < j /\ stacks[i].exc_type = stacks[j].exc_type

\* the exceptions visited
Visited == {stacks[k].exc_type : k \in DOMAIN stacks}

\* the object the links lead to from object id: __cause__, else an
\* unsuppressed __context__, else None
LinkFrom(id) ==
    IF heap[id].cause # 0 THEN heap[id].cause
    ELSE IF heap[id].context # 0 /\ ~heap[id].suppress_context
         THEN heap[id].context
         ELSE 0

\* C17: the chain walk of extract terminates if and only if the links it
\* follows (__cause__, else unsuppressed __context__) never return to an
\* exception already visited; when it terminates, the trace holds exactly
\* one node per exception visited, is never empty, and its first node is
\* the active exception with is_cause = false.  There is no visited set
\* and no step budget: a walk that has returned to an exception goes on.
C17_TerminatesIffNoRevisit ==
    /\ <>(Terminated \/ Revisited)
    /\ [](Revisited => pc = "walk")
    /\ [](Terminated =>
             /\ stacks # <<>>
             /\ stacks[1].exc_type = 1 /\ ~stacks[1].is_cause
             /\ Len(stacks) = Cardinality(Visited)
             /\ \A k \in DOMAIN stacks :
                    LinkFrom(stacks[k].exc_type)
                        = (IF k < Len(stacks) THEN stacks[k + 1].exc_type ELSE 0))

\* two exceptions that are each other's context: the walk is back at the
\* active exception and has made its node a second time
C17_Witness ==
    /\ pc = "walk"
    /\ Len(stacks) >= 3
    /\ stacks[2].exc_type # stacks[1].exc_type
    /\ stacks[3].exc_type = stacks[1].exc_type
    /\ LinkFrom(1) = 2 /\ LinkFrom(2) = 1

(***************************************************************************)
(* Claims about install.                                                   *)
(***************************************************************************)
\* C7: install() returns the hook that was in the global slot just before
\* the call and makes the new hook the active one; after any sequence of
\* install() calls, assigning the first call's return value back to the
\* slot restores the hook that was active before any installation.
C7_InstallReturnsPreviousHook ==
    /\ [][installs' = installs + 1 =>
             /\ returned' = Append(returned, excepthook)
             /\ excepthook' = installs'
             /\ excepthook' # excepthook]_vars
    /\ [](pc = "restored" => excepthook = original_hook)

\* the first return value put back after several installations
C7_Witness ==
    /\ pc = "restored"
    /\ installs >= 2
    /\ excepthook = original_hook
    /\ returned[2] = 1

=============================================================================
